---- MODULE Spec2Model ----
(***************************************************************************)
(* CodeSenseAI: the webhook-driven background analysis pipeline.           *)
(*                                                                         *)
(* The persistent store (repositories, pull_requests, review_sessions,     *)
(* code_reviews) holds committed rows only.  Every request and every       *)
(* background task works through its own SQLAlchemy session: rows added    *)
(* with db.add() and attribute writes stay local until db.commit(), and a  *)
(* commit that raises rolls the transaction back (pending rows and dirty   *)
(* attributes are discarded).  Coroutines run on one event loop, so the    *)
(* code between two awaits is one atomic step.                             *)
(*                                                                         *)
(* The ORM classes are taken to load and file_info["path"] to read the     *)
(* path of a file entry, as the code is written to use them.               *)
(***************************************************************************)
EXTENDS Integers, Sequences, FiniteSets, TLC

VARIABLES
    repositories,     \* table repositories: sequence of rows, id = position
    pull_requests,    \* table pull_requests: sequence of rows, id = position
    review_sessions,  \* table review_sessions: sequence of rows, session_id = position
    code_reviews,     \* table code_reviews: sequence of committed Finding rows
    background_tasks, \* _run_code_analysis tasks: sequence of task records
    trigger_tasks,    \* _trigger_code_analysis tasks added by the webhook and not yet run
    response,         \* the last HTTP response produced (history)
    requests,         \* number of HTTP requests served so far
    storage_failures, \* number of db.commit() calls that have raised so far
    claimed,          \* history: per session, how many orchestrator runs have started
    review_requests,  \* history: the ReviewRequest each _trigger_code_analysis run built
    verify_in,        \* input of the signature verification under SpecVerify
    verify_out        \* its result under SpecVerify

vars == <<repositories, pull_requests, review_sessions, code_reviews,
          background_tasks, trigger_tasks, response, requests,
          storage_failures, claimed, review_requests, verify_in, verify_out>>

(***************************************************************************)
(* Bounds of the model.                                                    *)
(***************************************************************************)
MaxRequests == 2          \* HTTP requests served
MaxFiles == 2             \* files over all the sessions
MaxStorageFailures == 2   \* commits that raise

NULL == "NULL"

(***************************************************************************)
(* Strings and byte strings are sequences of code points (0..255).         *)
(***************************************************************************)
RECURSIVE SumBytes(_, _)
SumBytes(bytes, acc) ==
    IF bytes = <<>> THEN acc
    ELSE SumBytes(Tail(bytes), (acc * 31 + Head(bytes)) % (16 * 16))

\* settings.GITHUB_WEBHOOK_SECRET, a required str setting ("s3")
webhook_secret == <<115, 51>>

\* "sha256="
SignaturePrefix == <<115, 104, 97, 50, 53, 54, 61>>

\* one hexadecimal digit of hexdigest(): "0".."9", "a".."f"
HexDigit(n) == IF n < 10 THEN 48 + n ELSE 87 + n

\* hmac.new(key, payload, hashlib.sha256).hexdigest(): a keyed digest of the
\* payload written in lower-case hexadecimal.  The digest is a stand-in of
\* two hexadecimal digits for SHA-256's sixty-four.
hmac_hexdigest(key, payload) ==
    LET inner == SumBytes(payload, SumBytes(key, 54))
        outer == SumBytes(<<inner>>, SumBytes(key, 92))
    IN  <<HexDigit(outer \div 16), HexDigit(outer % 16)>>

IsAscii(str) == \A k \in 1..Len(str) : str[k] < 128

\* a comparison that stops at the shorter string
compare_digest_prefix(a, b) ==
    IF ~IsAscii(a) \/ ~IsAscii(b)
    THEN [raised |-> TRUE, value |-> FALSE]
    ELSE [raised |-> FALSE,
          value  |-> \A k \in 1..Len(b) : k <= Len(a) => a[k] = b[k]]

\* hmac.compare_digest on two str: TypeError unless both are ASCII-only; else a
\* comparison that reads every character of b (result |= x ^ y) after the
\* length check.
compare_digest(a, b) ==
    IF ~IsAscii(a) \/ ~IsAscii(b)
    THEN [raised |-> TRUE, value |-> FALSE]
    ELSE [raised |-> FALSE,
          value  |-> Len(a) = Len(b) /\ \A k \in 1..Len(b) : a[k] = b[k]]

expected_signature(payload) == SignaturePrefix \o hmac_hexdigest(webhook_secret, payload)

\* GitHubService.verify_webhook_signature: any exception is logged and turned
\* into False.
verify_webhook_signature(payload, signature) ==
    LET r == compare_digest(signature, expected_signature(payload))
    IN  IF r.raised
        THEN [raised |-> FALSE, value |-> FALSE]
        ELSE [raised |-> FALSE, value |-> r.value]

(***************************************************************************)
(* Request bodies.  A body is "{" k "}" for the payload numbered k, or     *)
(* one of the byte strings below that json.loads / decode reject.          *)
(***************************************************************************)
BodyOf(k) == <<123, k, 125>>
TruncatedJsonBody == <<123, 1>>
NotUtf8Body == <<123, 255, 125>>

\* body.decode('utf-8'): UnicodeDecodeError on a byte that starts no sequence
decode_utf8_ok(body) == \A k \in 1..Len(body) : body[k] < 128

\* json.loads: JSONDecodeError unless the text is one complete object
json_ok(body) == Len(body) >= 2 /\ body[1] = 123 /\ body[Len(body)] = 125

FlipBit(c, k) == IF (c \div (2 ^ k)) % 2 = 1 THEN c - 2 ^ k ELSE c + 2 ^ k

FlipAt(str, pos, k) == [str EXCEPT ![pos] = FlipBit(str[pos], k)]

\* every string that differs from str in exactly one bit of one character
SingleBitFlips(str) == {FlipAt(str, pos, k) : pos \in 1..Len(str), k \in 0..6}

(***************************************************************************)
(* Inputs of the trigger-analysis request and of the collaborators.        *)
(***************************************************************************)
FileNames == <<"a.py", "b.py", "c.py", "d.py">>

RepositoryIdInputs == {1}
PullRequestIdInputs == {1, 2}

\* ReviewRequest: the fields the orchestrator reads
ReviewRequestInputs(max_files) ==
    {[repository_id |-> r, pull_request_id |-> p, files |-> SubSeq(FileNames, 1, n)] :
        r \in RepositoryIdInputs, p \in PullRequestIdInputs, n \in 0..max_files}

\* one finding as a collaborator reports it: confidence is <<c>>, or <<>> when
\* the key is absent.  An item that is no JSON object (a string, a number)
\* makes item.get(...) raise AttributeError.
Item(conf, tool) == [wellformed |-> TRUE, confidence |-> conf, tool |-> tool]
NotAnObject == [wellformed |-> FALSE, confidence |-> <<>>, tool |-> NULL]

\* what CodeAnalysisService.analyze_code returns (it catches every exception
\* and then returns the three lists empty)
AiResultInputs ==
    { [bugs |-> <<>>, security_issues |-> <<>>, quality_issues |-> <<>>],
      [bugs |-> <<Item(<<>>, NULL)>>, security_issues |-> <<Item(<<150>>, NULL)>>,
       quality_issues |-> <<Item(<<60>>, NULL)>>],
      [bugs |-> <<Item(<<-5>>, NULL)>>, security_issues |-> <<NotAnObject>>,
       quality_issues |-> <<>>] }

\* what StaticAnalysisService.analyze_code returns (it catches every exception)
StaticResultInputs ==
    { [security_issues |-> <<>>, quality_issues |-> <<>>],
      [security_issues |-> <<Item(<<80>>, "bandit")>>,
       quality_issues |-> <<Item(<<>>, "semgrep")>>] }

(***************************************************************************)
(* Rows.                                                                   *)
(***************************************************************************)
\* a session stored as already running
ReviewSessionRunning(request) ==
    [repository_id   |-> request.repository_id,
     pull_request_id |-> request.pull_request_id,
     status          |-> "running",
     total_files     |-> Len(request.files),
     processed_files |-> 0,
     total_issues    |-> 0,
     completed_at    |-> NULL,
     error_message   |-> NULL]

\* ReviewSession(...) as analyze_pull_request constructs it, with the column
\* defaults processed_files = 0, total_issues = 0
ReviewSession(request) ==
    [repository_id   |-> request.repository_id,
     pull_request_id |-> request.pull_request_id,
     status          |-> "pending",
     total_files     |-> Len(request.files),
     processed_files |-> 0,
     total_issues    |-> 0,
     completed_at    |-> NULL,
     error_message   |-> NULL]

\* CodeReview(...): a Finding row.  line_number is <<n>>, or <<>> for None (the
\* items here carry no "line" and no "severity").  by is history: the session whose
\* orchestrator added the row (the table has no such column).
CodeReview(request, file_path, line_number, review_type, severity, confidence, source, description, by) ==
    [repository_id   |-> request.repository_id,
     pull_request_id |-> request.pull_request_id,
     file_path       |-> file_path,
     line_number     |-> line_number,
     review_type     |-> review_type,
     severity        |-> severity,
     ai_confidence   |-> confidence,
     source          |-> source,
     description     |-> description,
     by              |-> by]

\* item.get("confidence", default)
GetConfidence(item, default) ==
    IF item.confidence = <<>> THEN default ELSE item.confidence[1]

\* one "for item in result.get(...)" loop of _run_code_analysis: a row is added
\* and the counter incremented per item, until an item raises
RECURSIVE SaveItems(_, _, _, _, _, _, _, _)
SaveItems(items, request, file_path, review_type, severity, default, source, by) ==
    IF items = <<>> THEN [rows |-> <<>>, raised |-> FALSE]
    ELSE IF ~Head(items).wellformed THEN [rows |-> <<>>, raised |-> TRUE]
    ELSE LET row  == CodeReview(request, file_path, <<>>, review_type, severity,
                                GetConfidence(Head(items), default), source, "", by)
             rest == SaveItems(Tail(items), request, file_path, review_type, severity,
                               default, source, by)
         IN  [rows |-> <<row>> \o rest.rows, raised |-> rest.raised]

\* the three loops in sequence: AI bugs, AI security issues, static security
\* issues.  quality_issues of either collaborator are not read.
SaveResults(request, file_path, ai_result, static_result, by) ==
    LET bugs == SaveItems(ai_result.bugs, request, file_path, "bug", "medium", 75, "ai", by)
        sec  == SaveItems(ai_result.security_issues, request, file_path, "security",
                          "high", 85, "ai", by)
        stat == SaveItems(static_result.security_issues, request, file_path, "security",
                          "medium", 80, "static", by)
    IN  IF bugs.raised THEN bugs
        ELSE IF sec.raised THEN [rows |-> bugs.rows \o sec.rows, raised |-> TRUE]
        ELSE [rows |-> bugs.rows \o sec.rows \o stat.rows, raised |-> stat.raised]

(***************************************************************************)
(* POST /analyze                                                           *)
(***************************************************************************)
\* the state of one _run_code_analysis(session_id, request, db) call.
\*   pc           "scheduled" (added, not started), "loop" (claimed; file i is
\*                next, the summary when i = len(files)), "done" (returned),
\*                "crashed" (an exception left the task)
\*   total_issues the local counter; ai_result the local variable (<<>> while
\*                unbound); pending the rows added to db and not yet committed
\*   log          history: what became of each file so far
\*   summary_input history: what generate_review_summary was given
BackgroundTask(session_id, request) ==
    [session_id |-> session_id, request |-> request, pc |-> "scheduled", i |-> 0,
     total_issues |-> 0, ai_result |-> <<>>, pending |-> <<>>, log |-> <<>>,
     summary_input |-> <<>>]

\* the task added twice
add_task_twice(tasks, session_id, request) ==
    Append(Append(tasks, BackgroundTask(session_id, request)),
           BackgroundTask(session_id, request))

\* background_tasks.add_task(_run_code_analysis, session_id, request, db)
add_task(tasks, session_id, request) ==
    Append(tasks, BackgroundTask(session_id, request))

\* session_id = str(uuid.uuid4()): an identifier no stored session has
uuid4 == Len(review_sessions) + 1

RECURSIVE TotalFiles(_)
TotalFiles(sessions) ==
    IF sessions = <<>> THEN 0 ELSE Head(sessions).total_files + TotalFiles(Tail(sessions))

analyze_pull_request ==
    /\ requests < MaxRequests
    /\ requests' = requests + 1
    /\ \E request \in ReviewRequestInputs(MaxFiles - TotalFiles(review_sessions)),
          commit_ok \in BOOLEAN :
         IF commit_ok
         THEN /\ review_sessions' = Append(review_sessions, ReviewSession(request))
              /\ background_tasks' = add_task(background_tasks, uuid4, request)
              /\ response' = [endpoint |-> "analyze", status |-> 200,
                              session_id |-> uuid4, session_status |-> "pending"]
              /\ UNCHANGED storage_failures
         ELSE /\ storage_failures < MaxStorageFailures
              /\ storage_failures' = storage_failures + 1
              /\ response' = [endpoint |-> "analyze", status |-> 500]
              /\ UNCHANGED <<review_sessions, background_tasks>>
    /\ claimed' = IF Len(review_sessions') > Len(review_sessions)
                  THEN Append(claimed, 0) ELSE claimed
    /\ UNCHANGED <<repositories, pull_requests, code_reviews, trigger_tasks,
                   review_requests, verify_in, verify_out>>

(***************************************************************************)
(* _run_code_analysis                                                      *)
(***************************************************************************)
\* db.query(ReviewSession).filter(session_id == ...).first(): 0 stands for None
FirstSession(session_id) ==
    IF session_id \in DOMAIN review_sessions THEN session_id ELSE 0

\* a handler that puts the session back to "pending"
MarkFailedRequeues(sid, message, commit_ok) ==
    IF sid = 0 THEN <<review_sessions, "crashed", 0>>
    ELSE IF commit_ok
    THEN <<[review_sessions EXCEPT ![sid].status = "pending",
                                   ![sid].error_message = message], "done", 0>>
    ELSE <<review_sessions, "crashed", 1>>

\* a handler that also clears the progress counters
MarkFailedResetsProgress(sid, message, commit_ok) ==
    IF sid = 0 THEN <<review_sessions, "crashed", 0>>
    ELSE IF commit_ok
    THEN <<[review_sessions EXCEPT ![sid].status = "failed",
                                   ![sid].error_message = message,
                                   ![sid].processed_files = 0,
                                   ![sid].total_issues = 0], "done", 0>>
    ELSE <<review_sessions, "crashed", 1>>

\* except Exception (lines 343-347): status = "failed", error_message = str(e),
\* commit.  With no session object, or when this commit raises too, the
\* exception leaves the task.
\* Gives <<review_sessions', pc', number of commits that raised>>.
MarkFailed(sid, message, commit_ok) ==
    IF sid = 0 THEN <<review_sessions, "crashed", 0>>
    ELSE IF commit_ok
    THEN <<[review_sessions EXCEPT ![sid].status = "failed",
                                   ![sid].error_message = message], "done", 0>>
    ELSE <<review_sessions, "crashed", 1>>

\* lines 206-210: load the session, mark it running, commit
StartAnalysis(t) ==
    LET task == background_tasks[t]
        sid  == FirstSession(task.session_id)
    IN
    /\ task.pc = "scheduled"
    /\ \E commit_ok \in BOOLEAN, handler_ok \in BOOLEAN :
         /\ commit_ok => handler_ok
         /\ IF sid # 0 /\ commit_ok
            THEN /\ review_sessions' = [review_sessions EXCEPT ![sid].status = "running"]
                 /\ background_tasks' = [background_tasks EXCEPT ![t].pc = "loop"]
                 /\ UNCHANGED storage_failures
            ELSE LET failed == MarkFailed(sid, IF sid = 0 THEN "AttributeError"
                                               ELSE "commit failed", handler_ok)
                     raised == (IF sid = 0 THEN 0 ELSE 1) + failed[3]
                 IN  /\ storage_failures + raised <= MaxStorageFailures
                     /\ storage_failures' = storage_failures + raised
                     /\ review_sessions' = failed[1]
                     /\ background_tasks' = [background_tasks EXCEPT ![t].pc = failed[2]]
    /\ claimed' = [claimed EXCEPT ![task.session_id] = @ + 1]
    /\ UNCHANGED <<repositories, pull_requests, code_reviews, trigger_tasks,
                   response, requests, review_requests, verify_in, verify_out>>

\* the loop body for file i when get_file_content returns nothing (lines
\* 225-227): a warning, then continue
SkipFile(t) ==
    LET task == background_tasks[t]
    IN
    /\ task.pc = "loop"
    /\ task.i < Len(task.request.files)
    /\ background_tasks' = [background_tasks EXCEPT
            ![t].i = task.i + 1,
            ![t].log = Append(task.log, "skipped")]
    /\ UNCHANGED <<repositories, pull_requests, review_sessions, code_reviews,
                   trigger_tasks, response, requests, storage_failures, claimed,
                   review_requests, verify_in, verify_out>>

\* the loop body for file i when get_file_content raises: the per-file
\* handler (lines 305-307) logs and continues
AbandonFile(t) ==
    LET task == background_tasks[t]
    IN
    /\ task.pc = "loop"
    /\ task.i < Len(task.request.files)
    /\ background_tasks' = [background_tasks EXCEPT
            ![t].i = task.i + 1,
            ![t].log = Append(task.log, "fetch_raised")]
    /\ UNCHANGED <<repositories, pull_requests, review_sessions, code_reviews,
                   trigger_tasks, response, requests, storage_failures, claimed,
                   review_requests, verify_in, verify_out>>

\* the 1-based position taken for an index that is already 1-based
ProcessedAfterOffByOne(i) == i + 2

\* the 0-based loop index stored as it is
ProcessedAfterZeroBased(i) == i

\* session.processed_files = i + 1 (line 301)
ProcessedAfter(i) == i + 1

\* the loop body for file i once its content is fetched (lines 229-307): both
\* analyses, the three save loops, then the progress update and commit.  An
\* exception in a save loop or in the commit goes to the per-file handler;
\* rows added before a save loop raised stay pending in db, rows pending when
\* a commit raises are rolled back.
AnalyseFile(t) ==
    LET task == background_tasks[t]
        sid  == task.session_id
        path == task.request.files[task.i + 1]
    IN
    /\ task.pc = "loop"
    /\ task.i < Len(task.request.files)
    /\ \E ai_result \in AiResultInputs, static_result \in StaticResultInputs,
          commit_ok \in BOOLEAN :
         LET saved   == SaveResults(task.request, path, ai_result, static_result, sid)
             total   == task.total_issues + Len(saved.rows)
             pending == task.pending \o saved.rows
             next    == [task EXCEPT !.i = task.i + 1, !.total_issues = total,
                                     !.ai_result = <<ai_result>>]
         IN
         IF saved.raised
         THEN /\ commit_ok
              /\ background_tasks' = [background_tasks EXCEPT ![t] =
                     [next EXCEPT !.pending = pending,
                                  !.log = Append(task.log, "save_raised")]]
              /\ UNCHANGED <<review_sessions, code_reviews, storage_failures>>
         ELSE IF commit_ok
         THEN /\ code_reviews' = code_reviews \o pending
              /\ review_sessions' = [review_sessions EXCEPT
                     ![sid].processed_files = ProcessedAfter(task.i),
                     ![sid].total_issues = total]
              /\ background_tasks' = [background_tasks EXCEPT ![t] =
                     [next EXCEPT !.pending = <<>>,
                                  !.log = Append(task.log, "analysed")]]
              /\ UNCHANGED storage_failures
         ELSE /\ storage_failures < MaxStorageFailures
              /\ storage_failures' = storage_failures + 1
              /\ background_tasks' = [background_tasks EXCEPT ![t] =
                     [next EXCEPT !.pending = <<>>,
                                  !.log = Append(task.log, "commit_raised")]]
              /\ UNCHANGED <<review_sessions, code_reviews>>
    /\ UNCHANGED <<repositories, pull_requests, trigger_tasks, response, requests,
                   claimed, review_requests, verify_in, verify_out>>

RECURSIVE CountIssues(_, _)
CountIssues(analysis_results, field) ==
    IF analysis_results = <<>> THEN 0
    ELSE Len(Head(analysis_results)[field]) + CountIssues(Tail(analysis_results), field)

\* CodeAnalysisService.generate_review_summary: the counts over
\* analysis_results go into the prompt; when the model call raises, the
\* fallback sentence built from the same counts is returned
generate_review_summary(analysis_results, llm_ok) ==
    [text     |-> IF llm_ok THEN "llm" ELSE "fallback",
     files    |-> Len(analysis_results),
     bugs     |-> CountIssues(analysis_results, "bugs"),
     security |-> CountIssues(analysis_results, "security_issues"),
     quality  |-> CountIssues(analysis_results, "quality_issues")]

\* no summary row when the summarisation call raised
summary_review_unless_fallback(task, summary) ==
    IF task.ai_result = <<>> \/ summary.text = "fallback" THEN <<>>
    ELSE <<CodeReview(task.request, "SUMMARY", <<0>>, "summary", "info", 90,
                      "ai", summary.text, task.session_id)>>

\* lines 310-334: the rows the summary step adds to db.  Whatever
\* generate_review_summary returns, the model's text or the fallback sentence,
\* goes into one summary row; with ai_result unbound the NameError is caught
\* and nothing is added.
summary_review_rows(task, summary) ==
    IF task.ai_result = <<>> THEN <<>>
    ELSE <<CodeReview(task.request, "SUMMARY", <<0>>, "summary", "info", 90,
                      "ai", summary.text, task.session_id)>>

\* after the loop (lines 309-347): the summary row, then status = "completed",
\* completed_at = utcnow(), commit.  ai_result is unbound when no file reached
\* the AI analysis: the NameError is caught by the summary's handler and no
\* row is added.  A commit that raises rolls back and goes to the outer
\* handler.
CompleteSession(t) ==
    LET task == background_tasks[t]
        sid  == task.session_id
    IN
    /\ task.pc = "loop"
    /\ task.i = Len(task.request.files)
    /\ \E llm_ok \in BOOLEAN, commit_ok \in BOOLEAN, handler_ok \in BOOLEAN :
         LET summary == generate_review_summary(<<task.ai_result[1]>>, llm_ok)
             summary_review == summary_review_rows(task, summary)
         IN
         /\ task.ai_result = <<>> => llm_ok
         /\ commit_ok => handler_ok
         /\ IF commit_ok
            THEN /\ code_reviews' = code_reviews \o task.pending \o summary_review
                 /\ review_sessions' = [review_sessions EXCEPT
                        ![sid].status = "completed",
                        ![sid].completed_at = "utcnow"]
                 /\ background_tasks' = [background_tasks EXCEPT
                        ![t].pc = "done", ![t].pending = <<>>,
                        ![t].summary_input = IF task.ai_result = <<>> THEN <<>>
                                             ELSE <<summary>>]
                 /\ UNCHANGED storage_failures
            ELSE LET failed == MarkFailed(sid, "commit failed", handler_ok)
                 IN  /\ storage_failures + 1 + failed[3] <= MaxStorageFailures
                     /\ storage_failures' = storage_failures + 1 + failed[3]
                     /\ review_sessions' = failed[1]
                     /\ background_tasks' = [background_tasks EXCEPT
                            ![t].pc = failed[2], ![t].pending = <<>>,
                            ![t].summary_input = IF task.ai_result = <<>> THEN <<>>
                                                 ELSE <<summary>>]
                     /\ UNCHANGED code_reviews
    /\ UNCHANGED <<repositories, pull_requests, trigger_tasks, response, requests,
                   claimed, review_requests, verify_in, verify_out>>

(***************************************************************************)
(* POST /github (webhook)                                                  *)
(***************************************************************************)
\* payload["repository"]; owner is repository.owner.login.  NULL is a key
\* that is absent (None); an absent id is 0.
RepoData(id, name, full_name, owner, html_url) ==
    [id |-> id, name |-> name, full_name |-> full_name, owner |-> owner,
     html_url |-> html_url]

\* payload["pull_request"]; draft is "true", "false" or absent
PrData(id, number, title, body, state, user, head, base, draft) ==
    [id |-> id, number |-> number, title |-> title, body |-> body, state |-> state,
     user |-> user, head |-> head, base |-> base, draft |-> draft]

NoPrData == PrData(0, 0, NULL, NULL, NULL, NULL, NULL, NULL, NULL)

RepoR == RepoData(10, "r", "o/r", "o", "https://github.com/o/r")
\* the same full name with every other field different
RepoRMoved == RepoData(11, "r2", "o/r", "p", "https://github.com/p/r2")
\* another full name under the external id of RepoR
RepoS == RepoData(10, "s", "o/s", "o", "https://github.com/o/s")
RepoX == RepoData(12, "x", "o/x", "o", "https://github.com/o/x")
RepoNoOwner == RepoData(10, "r", "o/r", NULL, "https://github.com/o/r")

PrV1 == PrData(100, 1, "t1", "b1", "open", "alice", "h1", "m1", "false")
PrV2 == PrData(100, 2, "t2", "b2", "open", "bob", "h2", "m2", "false")
PrV2Draft == PrData(100, 2, "t2", "b2", "open", "bob", "h2", "m2", "true")

\* the decoded payloads; payload k is the content of BodyOf(k)
Payloads ==
    << [action |-> "opened",      repository |-> RepoR,       pull_request |-> PrV1],
       [action |-> "synchronize", repository |-> RepoRMoved,  pull_request |-> PrV2],
       [action |-> "synchronize", repository |-> RepoR,       pull_request |-> PrV2Draft],
       [action |-> "closed",      repository |-> RepoR,       pull_request |-> PrV1],
       [action |-> "opened",      repository |-> RepoNoOwner, pull_request |-> PrV1],
       [action |-> "opened",      repository |-> RepoS,       pull_request |-> PrV2],
       [action |-> "created",     repository |-> RepoR,       pull_request |-> NoPrData],
       [action |-> "deleted",     repository |-> RepoR,       pull_request |-> NoPrData],
       [action |-> "deleted",     repository |-> RepoX,       pull_request |-> NoPrData],
       [action |-> "deleted",     repository |-> RepoRMoved,  pull_request |-> NoPrData] >>

BodyInputs == {BodyOf(k) : k \in DOMAIN Payloads} \cup {TruncatedJsonBody, NotUtf8Body}

\* json.loads(body.decode('utf-8')) of a well-formed body
json_loads(body) == Payloads[body[2]]

\* the X-GitHub-Event header
EventInputs == {"pull_request", "repository", "push", "ping"}

\* the X-Hub-Signature-256 header of a delivery: the right one, one with a
\* single bit flipped, or none ("")
SignatureInputs(body) ==
    {expected_signature(body), FlipAt(expected_signature(body), 9, 0), <<>>}

\* Repository(...) with the column default is_active = True
Repository(repo_data) ==
    [github_id |-> repo_data.id, name |-> repo_data.name,
     full_name |-> repo_data.full_name, owner |-> repo_data.owner,
     url |-> repo_data.html_url, is_active |-> TRUE]

\* PullRequest(...) as _handle_pull_request_event constructs it
PullRequest(pr_data, repository_id) ==
    [github_id |-> pr_data.id, repository_id |-> repository_id,
     number |-> pr_data.number, title |-> pr_data.title, body |-> pr_data.body,
     state |-> pr_data.state, author |-> pr_data.user,
     head_sha |-> pr_data.head, base_sha |-> pr_data.base]

\* db.query(Repository).filter(full_name == ...).first(): the id, 0 for None
FirstRepository(repos, full_name) ==
    IF \E k \in DOMAIN repos : repos[k].full_name = full_name
    THEN CHOOSE k \in DOMAIN repos :
            /\ repos[k].full_name = full_name
            /\ \A j \in DOMAIN repos : repos[j].full_name = full_name => k <= j
    ELSE 0

\* a lookup that finds nothing
FirstPullRequestNone(prs, github_id) == 0

\* db.query(PullRequest).filter(github_id == ...).first(): the id, 0 for None
FirstPullRequest(prs, github_id) ==
    IF \E k \in DOMAIN prs : prs[k].github_id = github_id
    THEN CHOOSE k \in DOMAIN prs :
            /\ prs[k].github_id = github_id
            /\ \A j \in DOMAIN prs : prs[j].github_id = github_id => k <= j
    ELSE 0

\* a table without unique constraints
RepositoryInsertUnconstrained(repos, row) == TRUE

\* the unique constraints of table repositories (github_id, full_name): an
\* insert that breaks one makes the commit raise IntegrityError
RepositoryInsertAllowed(repos, row) ==
    \A k \in DOMAIN repos :
        /\ repos[k].full_name # row.full_name
        /\ repos[k].github_id # row.github_id

\* the test that starts analysis (line 131)
TriggersAnalysis(action, pr_data) ==
    action = "opened" \/ (action = "synchronize" /\ pr_data.draft = "false")

\* a repository upsert that overwrites the stored row with the event's values
upsert_repository(repos, found, row) ==
    IF found = 0 THEN Append(repos, row)
    ELSE [repos EXCEPT ![found] = [row EXCEPT !.is_active = repos[found].is_active]]

\* lines 82-96: the row is created when the lookup by full name found none;
\* a row that was found is left as it is
get_or_create_repository(repos, found, row) ==
    IF found = 0 THEN Append(repos, row) ELSE repos

\* _handle_pull_request_event.  repo_ok / pr_ok: whether the commit of the
\* repository row / of the pull-request row goes through.  Any exception is
\* logged and swallowed (line 156).
\* Gives [repos, prs, triggers, raised]: the tables after the handler, the
\* _trigger_code_analysis tasks it added, the commits that raised.
handle_pull_request_event(payload, repo_ok, pr_ok) ==
    LET action    == payload.action
        pr_data   == payload.pull_request
        repo_data == payload.repository
        unchanged == [repos |-> repositories, prs |-> pull_requests,
                      triggers |-> <<>>, raised |-> 0]
        found     == FirstRepository(repositories, repo_data.full_name)
        created   == found = 0
        row       == Repository(repo_data)
        repos1    == get_or_create_repository(repositories, found, row)
        repo_id   == IF created THEN Len(repos1) ELSE found
        pr_found  == FirstPullRequest(pull_requests, pr_data.id)
        prs1      == IF pr_found = 0
                     THEN Append(pull_requests, PullRequest(pr_data, repo_id))
                     ELSE [pull_requests EXCEPT
                             ![pr_found].title = pr_data.title,
                             ![pr_found].body = pr_data.body,
                             ![pr_found].state = pr_data.state,
                             ![pr_found].head_sha = pr_data.head,
                             ![pr_found].base_sha = pr_data.base]
        pr_id     == IF pr_found = 0 THEN Len(prs1) ELSE pr_found
        after_repo == [unchanged EXCEPT !.repos = repos1]
    IN
    IF repo_data.owner = NULL \/ repo_data.name = NULL \/ repo_data.full_name = NULL
    THEN unchanged
    ELSE IF created /\ ~RepositoryInsertAllowed(repositories, row)
    THEN unchanged
    ELSE IF created /\ ~repo_ok
    THEN [unchanged EXCEPT !.raised = 1]
    ELSE IF action \in {"opened", "synchronize"}
    THEN IF ~pr_ok
         THEN [after_repo EXCEPT !.raised = 1]
         ELSE [after_repo EXCEPT
                 !.prs = prs1,
                 !.triggers = IF TriggersAnalysis(action, pr_data)
                              THEN <<[repository_id |-> repo_id,
                                      pull_request_id |-> pr_id]>>
                              ELSE <<>>]
    ELSE IF action = "closed" /\ pr_found # 0
    THEN IF ~pr_ok
         THEN [after_repo EXCEPT !.raised = 1]
         ELSE [after_repo EXCEPT !.prs = [pull_requests EXCEPT ![pr_found].state = "closed"]]
    ELSE after_repo

\* the row removed from the table
delete_repository(repos, found) ==
    SubSeq(repos, 1, found - 1) \o SubSeq(repos, found + 1, Len(repos))

\* lines 201-203: repository.is_active = False
deactivate_repository(repos, found) ==
    [repos EXCEPT ![found].is_active = FALSE]

\* _handle_repository_event.  Any exception is logged and swallowed (line 207).
handle_repository_event(payload, repo_ok) ==
    LET action    == payload.action
        repo_data == payload.repository
        unchanged == [repos |-> repositories, prs |-> pull_requests,
                      triggers |-> <<>>, raised |-> 0]
        row       == Repository(repo_data)
        found     == FirstRepository(repositories, repo_data.full_name)
    IN
    IF action = "created"
    THEN IF ~RepositoryInsertAllowed(repositories, row) THEN unchanged
         ELSE IF ~repo_ok THEN [unchanged EXCEPT !.raised = 1]
         ELSE [unchanged EXCEPT !.repos = Append(repositories, row)]
    ELSE IF action = "deleted" /\ found # 0
    THEN IF ~repo_ok THEN [unchanged EXCEPT !.raised = 1]
         ELSE [unchanged EXCEPT !.repos = deactivate_repository(repositories, found)]
    ELSE unchanged

\* the status of the response when the body of github_webhook raises: the
\* JSONDecodeError clause answers 400, the Exception clause after it 500
\* (HTTPException is an Exception)
RaisedStatus(exception) ==
    IF exception = "JSONDecodeError" THEN 400 ELSE 500

\* the checks before the payload is dispatched (lines 36-41): "" when the
\* request passes, else the exception raised
RejectedWith(body, signature) ==
    IF ~verify_webhook_signature(body, signature).value THEN "HTTPException(401)"
    ELSE IF ~decode_utf8_ok(body) THEN "UnicodeDecodeError"
    ELSE IF ~json_ok(body) THEN "JSONDecodeError"
    ELSE ""

\* the signature is checked and logged, and the event handled all the same
DispatchUnverified(rejected, handled, unchanged) ==
    IF rejected \in {"JSONDecodeError", "UnicodeDecodeError"} THEN unchanged ELSE handled

\* lines 36-55: the handlers run only for a request that passed the checks
Dispatch(rejected, handled, unchanged) ==
    IF rejected # "" THEN unchanged ELSE handled

\* history: the number of the payload a handler was given, 0 when the request
\* reached no handler
Delivered(rejected, event_type, body) ==
    IF rejected = "" /\ event_type \in {"pull_request", "repository"} THEN body[2] ELSE 0

github_webhook ==
    /\ requests < MaxRequests
    /\ requests' = requests + 1
    /\ \E body \in BodyInputs :
       \E signature \in SignatureInputs(body) :
       \E event_type \in EventInputs, repo_ok \in BOOLEAN, pr_ok \in BOOLEAN :
         LET rejected  == RejectedWith(body, signature)
             payload   == json_loads(body)
             unchanged == [repos |-> repositories, prs |-> pull_requests,
                           triggers |-> <<>>, raised |-> 0]
             handled   ==
                 IF event_type = "pull_request"
                 THEN handle_pull_request_event(payload, repo_ok, pr_ok)
                 ELSE IF event_type = "repository"
                 THEN handle_repository_event(payload, repo_ok)
                 ELSE unchanged
             effect    == Dispatch(rejected, handled, unchanged)
         IN
         /\ (repo_ok /\ pr_ok) \/ effect.raised > 0
         /\ storage_failures + effect.raised <= MaxStorageFailures
         /\ storage_failures' = storage_failures + effect.raised
         /\ repositories' = effect.repos
         /\ pull_requests' = effect.prs
         /\ trigger_tasks' = trigger_tasks \o effect.triggers
         /\ response' = [endpoint |-> "webhook",
                         status |-> IF rejected # "" THEN RaisedStatus(rejected) ELSE 200,
                         raised |-> rejected,
                         event  |-> IF rejected # "" THEN "" ELSE event_type,
                         payload |-> Delivered(rejected, event_type, body)]
    /\ UNCHANGED <<review_sessions, code_reviews, background_tasks, claimed,
                   review_requests, verify_in, verify_out>>

\* how many of the files get_pull_request_files lists are added or modified
RelevantFilesInputs == {0, 1}

\* _trigger_code_analysis: lists the pull request's files and returns when
\* none is added or modified; else it builds a ReviewRequest (lines 249-259)
\* and logs.  It stores nothing and starts no orchestrator.
trigger_code_analysis ==
    /\ trigger_tasks # <<>>
    /\ trigger_tasks' = Tail(trigger_tasks)
    /\ \E n \in RelevantFilesInputs :
         review_requests' =
             IF n = 0 THEN review_requests
             ELSE Append(review_requests,
                         [repository_id   |-> Head(trigger_tasks).repository_id,
                          pull_request_id |-> Head(trigger_tasks).pull_request_id,
                          files           |-> SubSeq(FileNames, 1, n)])
    /\ UNCHANGED <<repositories, pull_requests, review_sessions, code_reviews,
                   background_tasks, response, requests, storage_failures, claimed,
                   verify_in, verify_out>>

(***************************************************************************)
(* The system: requests arrive in any order, background tasks interleave.  *)
(***************************************************************************)
Init ==
    /\ repositories = <<>>
    /\ pull_requests = <<>>
    /\ review_sessions = <<>>
    /\ code_reviews = <<>>
    /\ background_tasks = <<>>
    /\ trigger_tasks = <<>>
    /\ response = [endpoint |-> "none", status |-> 0]
    /\ requests = 0
    /\ storage_failures = 0
    /\ claimed = <<>>
    /\ review_requests = <<>>
    /\ verify_in = <<>>
    /\ verify_out = <<>>

Next ==
    \/ analyze_pull_request
    \/ \E t \in DOMAIN background_tasks : StartAnalysis(t)
    \/ \E t \in DOMAIN background_tasks : SkipFile(t)
    \/ \E t \in DOMAIN background_tasks : AbandonFile(t)
    \/ \E t \in DOMAIN background_tasks : AnalyseFile(t)
    \/ \E t \in DOMAIN background_tasks : CompleteSession(t)
    \/ github_webhook
    \/ trigger_code_analysis

Spec == Init /\ [][Next]_vars

\* one step of the orchestrator run t
OrchestratorStep(t) ==
    /\ t \in DOMAIN background_tasks
    /\ \/ StartAnalysis(t)
       \/ SkipFile(t)
       \/ AbandonFile(t)
       \/ AnalyseFile(t)
       \/ CompleteSession(t)

\* The event loop runs every background task that was added, and every
\* collaborator call and storage write returns or raises: a task that can
\* take a step takes it.  Requests arrive or not.
SpecLive ==
    /\ Spec
    /\ WF_vars(trigger_code_analysis)
    /\ \A t \in 1..MaxRequests : WF_vars(OrchestratorStep(t))

(***************************************************************************)
(* verify_webhook_signature on its own: one body and one claimed signature *)
(* are drawn, then verified.                                               *)
(***************************************************************************)
NonAscii == <<115, 104, 97, 50, 53, 54, 61, 233, 233>>

VerifySignatureInputs(body) ==
    LET expected == expected_signature(body)
    IN  {expected, <<>>, NonAscii,
         SubSeq(expected, 8, 9),             \* the digest without "sha256="
         SubSeq(expected, 1, 8),             \* one character short
         expected \o <<48>>,                 \* one character long
         [expected EXCEPT ![9] = 233]}       \* a character outside ASCII
        \cup SingleBitFlips(expected)
        \cup {expected_signature(other) : other \in BodyInputs}

InitVerify ==
    /\ repositories = <<>>
    /\ pull_requests = <<>>
    /\ review_sessions = <<>>
    /\ code_reviews = <<>>
    /\ background_tasks = <<>>
    /\ trigger_tasks = <<>>
    /\ response = [endpoint |-> "none", status |-> 0]
    /\ requests = 0
    /\ storage_failures = 0
    /\ claimed = <<>>
    /\ review_requests = <<>>
    /\ \E body \in BodyInputs :
       \E signature \in VerifySignatureInputs(body) :
         verify_in = <<body, signature>>
    /\ verify_out = <<>>

Verify ==
    /\ verify_out = <<>>
    /\ verify_out' = <<verify_webhook_signature(verify_in[1], verify_in[2])>>
    /\ UNCHANGED <<repositories, pull_requests, review_sessions, code_reviews,
                   background_tasks, trigger_tasks, response, requests,
                   storage_failures, claimed, review_requests, verify_in>>

SpecVerify == InitVerify /\ [][Verify]_vars

(***************************************************************************)
(* Properties.                                                             *)
(***************************************************************************)
Terminal == {"completed", "failed"}

SessionOf(task) == review_sessions[task.session_id]

FetchFailed(outcome) == outcome \in {"skipped", "fetch_raised"}

\* the rows the orchestrator of session sid has committed
RowsBy(sid) == {k \in DOMAIN code_reviews : code_reviews[k].by = sid}

\* the rows get_review_results returns for session sid: those of its
\* (repository_id, pull_request_id) pair
RowsInScope(sid) ==
    {k \in DOMAIN code_reviews :
        /\ code_reviews[k].repository_id = review_sessions[sid].repository_id
        /\ code_reviews[k].pull_request_id = review_sessions[sid].pull_request_id}

NoAnalysisInFlight ==
    \A t \in DOMAIN background_tasks : background_tasks[t].pc \in {"done", "crashed"}

\* C1: a session over N >= 1 files in which exactly one file's fetch fails and
\* every other file is analysed without error (no commit raising) ends
\* terminal with processed_files = N, and every row it created belongs to
\* another file.
C1_OneFetchFailure ==
    \A t \in DOMAIN background_tasks :
        LET task   == background_tasks[t]
            n      == Len(task.request.files)
            failed == {k \in DOMAIN task.log : FetchFailed(task.log[k])}
        IN  ( /\ task.pc = "done"
              /\ storage_failures = 0
              /\ n >= 1
              /\ Cardinality(failed) = 1
              /\ \A k \in DOMAIN task.log : k \notin failed => task.log[k] = "analysed" )
            => /\ SessionOf(task).status \in Terminal
               /\ SessionOf(task).processed_files = n
               /\ \A r \in RowsBy(task.session_id), k \in failed :
                      code_reviews[r].file_path # task.request.files[k]

\* C2: once the orchestrator has finished file i (0-based), analysed, skipped
\* or abandoned, the persisted processed_files is i + 1 (task.i counts the
\* files finished; no commit has raised).
C2_ProgressPerFile ==
    \A t \in DOMAIN background_tasks :
        LET task == background_tasks[t]
        IN  (task.pc = "loop" /\ task.i >= 1 /\ storage_failures = 0)
            => SessionOf(task).processed_files = task.i

\* C3: for every session, 0 <= processed_files <= total_files, and total_files
\* is the length of the file list the session was created with.
C3_ProcessedWithinTotal ==
    /\ \A s \in DOMAIN review_sessions :
          /\ 0 <= review_sessions[s].processed_files
          /\ review_sessions[s].processed_files <= review_sessions[s].total_files
    /\ \A t \in DOMAIN background_tasks :
          SessionOf(background_tasks[t]).total_files = Len(background_tasks[t].request.files)

C3_Witness ==
    \E s \in DOMAIN review_sessions :
        /\ review_sessions[s].total_files = 2
        /\ review_sessions[s].processed_files = 2

StatusChange(before, after, allowed) ==
    \A s \in DOMAIN before :
        before[s].status # after[s].status
            => <<before[s].status, after[s].status>> \in allowed

\* C4 as stated: every change of a session's persisted status is one of
\* pending->running, running->completed, running->failed.
C4_StatusTransitionsAsStated ==
    [][StatusChange(review_sessions, review_sessions',
                    {<<"pending", "running">>, <<"running", "completed">>,
                     <<"running", "failed">>})]_vars

\* C4 amended: every change of a session's persisted status is one of
\* pending->running, running->completed, running->failed, or pending->failed
\* (the commit that marks the session running raised and the failure
\* handler's commit went through); in particular a completed or failed
\* session never changes status again and no session goes from pending to
\* completed.
C4_StatusTransitions ==
    [][StatusChange(review_sessions, review_sessions',
                    {<<"pending", "running">>, <<"running", "completed">>,
                     <<"running", "failed">>, <<"pending", "failed">>})]_vars

C4_Witness ==
    \E s1, s2 \in DOMAIN review_sessions :
        /\ review_sessions[s1].status = "completed"
        /\ review_sessions[s2].status = "failed"
        /\ review_sessions[s2].processed_files = 0
        /\ background_tasks[s2].log = <<>>
        /\ background_tasks[s2].request.files # <<>>

\* C5: whatever trigger-analysis requests and webhook deliveries have been
\* served, no session has had more than one orchestrator run started for it.
C5_ClaimedAtMostOnce ==
    /\ \A s \in DOMAIN claimed : claimed[s] <= 1
    /\ \A t1, t2 \in DOMAIN background_tasks :
          background_tasks[t1].session_id = background_tasks[t2].session_id => t1 = t2

C5_Witness ==
    /\ \E s \in DOMAIN claimed : claimed[s] = 1
    /\ response.endpoint = "webhook"
    /\ response.status = 200
    /\ pull_requests # <<>>
    /\ trigger_tasks = <<>>

\* C6: a webhook request whose signature fails verification is answered 401.
C6_BadSignatureIs401 ==
    (response.endpoint = "webhook" /\ response.raised = "HTTPException(401)")
        => response.status = 401

\* C7: a webhook request that fails signature verification, or whose body is
\* not valid JSON, changes no Repository, PullRequest, ReviewSession or
\* Finding row and schedules no background task.
C7_RejectedWebhookChangesNothing ==
    [][ ( /\ requests' = requests + 1
          /\ response'.endpoint = "webhook"
          /\ response'.raised # "" )
        => UNCHANGED <<repositories, pull_requests, review_sessions, code_reviews,
                       background_tasks, trigger_tasks>> ]_vars

C7_Witness ==
    /\ response.endpoint = "webhook"
    /\ response.raised = "HTTPException(401)"
    /\ repositories # <<>>
    /\ pull_requests # <<>>

\* C8: verify_webhook_signature(body, signature) returns true exactly when
\* signature is "sha256=" followed by the hexadecimal HMAC of body under the
\* configured secret, false for every other string, and never raises.
C8_VerifyExact ==
    verify_out # <<>>
        => /\ ~verify_out[1].raised
           /\ verify_out[1].value
                = (verify_in[2] = SignaturePrefix \o hmac_hexdigest(webhook_secret, verify_in[1]))

C8_Witness ==
    /\ verify_out # <<>>
    /\ verify_in[2] \in SingleBitFlips(expected_signature(verify_in[1]))
    /\ ~verify_out[1].value

\* C9: whenever no analysis is in flight (and no commit has raised), each
\* session's total_issues is the number of Finding rows stored under its
\* (repository_id, pull_request_id).
C9_TotalIssuesIsRowCount ==
    (NoAnalysisInFlight /\ storage_failures = 0)
        => \A s \in DOMAIN review_sessions :
              review_sessions[s].total_issues = Cardinality(RowsInScope(s))

\* C10: a session's completed_at is set exactly when its status is completed
\* or failed.
C10_CompletedAtIffTerminal ==
    \A s \in DOMAIN review_sessions :
        (review_sessions[s].completed_at # NULL) <=> (review_sessions[s].status \in Terminal)

\* C11: once a pull_request webhook that triggers analysis has been accepted
\* and its pull request is found to have at least one added or modified file,
\* a session for that (repository, pull request) eventually exists and has
\* been run to a terminal status.
C11_WebhookLeadsToSession ==
    \A r \in 1..MaxRequests, p \in 1..MaxRequests :
        (\E k \in DOMAIN review_requests :
            /\ review_requests[k].repository_id = r
            /\ review_requests[k].pull_request_id = p
            /\ review_requests[k].files # <<>>)
        ~> (\E s \in DOMAIN review_sessions :
               /\ review_sessions[s].repository_id = r
               /\ review_sessions[s].pull_request_id = p
               /\ review_sessions[s].status \in Terminal)

\* C12: when a trigger-analysis request is answered (200), the response names
\* a session identifier no session had before; that session is stored with
\* status pending, total_files the number of files of the request,
\* processed_files 0 and total_issues 0; the response says pending; and the
\* one orchestrator run added for the session has not taken a step.
C12_AnalyzeResponse ==
    [][ ( /\ requests' = requests + 1
          /\ response'.endpoint = "analyze"
          /\ response'.status = 200 )
        => LET sid  == response'.session_id
               runs == {t \in DOMAIN background_tasks' :
                           background_tasks'[t].session_id = sid}
           IN  /\ sid \notin DOMAIN review_sessions
               /\ sid \in DOMAIN review_sessions'
               /\ review_sessions'[sid].status = "pending"
               /\ review_sessions'[sid].processed_files = 0
               /\ review_sessions'[sid].total_issues = 0
               /\ response'.session_status = "pending"
               /\ Cardinality(runs) = 1
               /\ \A t \in runs :
                      /\ background_tasks'[t].pc = "scheduled"
                      /\ review_sessions'[sid].total_files
                            = Len(background_tasks'[t].request.files)
               /\ claimed'[sid] = 0 ]_vars

C12_Witness ==
    /\ response.endpoint = "analyze"
    /\ response.status = 200
    /\ response.session_id = 2
    /\ review_sessions[1].status = "running"
    /\ review_sessions[2].status = "pending"
    /\ review_sessions[2].total_files = 1
    /\ background_tasks[2].pc = "scheduled"

\* C13: every session created by trigger-analysis eventually has status
\* completed or failed, whatever the file list and whatever the collaborators
\* and the storage writes do (each returns or raises).
C13_SessionTerminates ==
    \A s \in 1..MaxRequests :
        (s \in DOMAIN review_sessions)
        ~> (s \in DOMAIN review_sessions /\ review_sessions[s].status \in Terminal)

\* C14: when an exception is raised while one file is processed (by the
\* fetch, or while its findings are persisted; no commit raises), every file
\* of the list has still been gone through, the session ends completed, no
\* Finding row of the session is of that file, and total_issues counts the
\* findings of the other files only.
C14_FileFailureContained ==
    \A t \in DOMAIN background_tasks :
        LET task   == background_tasks[t]
            raised == {k \in DOMAIN task.log :
                          task.log[k] \in {"fetch_raised", "save_raised"}}
            others == {r \in RowsBy(task.session_id) :
                          /\ code_reviews[r].review_type # "summary"
                          /\ \A k \in raised :
                                 code_reviews[r].file_path # task.request.files[k]}
        IN  (task.pc = "done" /\ storage_failures = 0 /\ raised # {})
            => /\ SessionOf(task).status = "completed"
               /\ Len(task.log) = Len(task.request.files)
               /\ \A r \in RowsBy(task.session_id), k \in raised :
                      code_reviews[r].file_path # task.request.files[k]
               /\ SessionOf(task).total_issues = Cardinality(others)

\* C15: an orchestrator run that fails outside the per-file scope (a storage
\* write raises where no per-file handler is in force) leaves its session
\* failed with the exception's message in error_message, and no exception
\* leaves the background task.
C15_OuterFailureMarksFailed ==
    \A t \in DOMAIN background_tasks :
        LET task == background_tasks[t]
        IN  /\ task.pc # "crashed"
            /\ (task.pc = "done" /\ SessionOf(task).status # "completed")
                   => /\ SessionOf(task).status = "failed"
                      /\ SessionOf(task).error_message # NULL

\* C16: a webhook request that passes the signature and JSON checks and
\* during whose handling a commit raises is answered 500.
C16_StorageFailureIs500 ==
    [][ ( /\ requests' = requests + 1
          /\ response'.endpoint = "webhook"
          /\ response'.raised = ""
          /\ storage_failures' > storage_failures )
        => response'.status = 500 ]_vars

\* the identity fields of a Repository row: all but the active flag
RepositoryFields(row) ==
    <<row.github_id, row.name, row.full_name, row.owner, row.url>>

\* the webhook just served handed payload k to a handler, and that payload
\* names the full name of the stored row with another owner, name, url or
\* external id
NamesWithOtherFields(k, row) ==
    /\ k # 0
    /\ Payloads[k].repository.full_name = row.full_name
    /\ RepositoryFields(Repository(Payloads[k].repository)) # RepositoryFields(row)

\* C17 as stated: a webhook that names the full name of a stored repository
\* with a different owner, name, url or external id leaves every field of the
\* stored record unchanged.
C17_CreateOnlyAsStated ==
    [][ ( /\ requests' = requests + 1
          /\ response'.endpoint = "webhook" )
        => \A k \in DOMAIN repositories :
              NamesWithOtherFields(response'.payload, repositories[k])
                 => /\ k \in DOMAIN repositories'
                    /\ repositories'[k] = repositories[k] ]_vars

\* C17 amended: such a webhook leaves external id, name, full name, owner and
\* url of the stored record unchanged; the active flag is changed, to false,
\* by a repository "deleted" event only.
C17_CreateOnly ==
    [][ ( /\ requests' = requests + 1
          /\ response'.endpoint = "webhook" )
        => \A k \in DOMAIN repositories :
              NamesWithOtherFields(response'.payload, repositories[k])
                 => /\ k \in DOMAIN repositories'
                    /\ RepositoryFields(repositories'[k]) = RepositoryFields(repositories[k])
                    /\ repositories'[k].is_active # repositories[k].is_active
                          => /\ response'.event = "repository"
                             /\ Payloads[response'.payload].action = "deleted"
                             /\ ~repositories'[k].is_active ]_vars

C17_Witness ==
    /\ response.endpoint = "webhook"
    /\ response.event = "pull_request"
    /\ response.payload = 2
    /\ repositories = <<Repository(RepoR)>>
    /\ pull_requests # <<>>
    /\ pull_requests[1].title = "t2"

\* C18: no two stored Repository records have the same full_name.
C18_FullNameUnique ==
    \A j, k \in DOMAIN repositories :
        repositories[j].full_name = repositories[k].full_name => j = k

\* a repository "created" event for a full name that a pull_request event
\* had already stored
C18_Witness ==
    /\ requests = 2
    /\ storage_failures = 0
    /\ response.endpoint = "webhook"
    /\ response.event = "repository"
    /\ Payloads[response.payload].action = "created"
    /\ pull_requests # <<>>
    /\ \E k \in DOMAIN repositories :
          repositories[k].full_name = Payloads[response.payload].repository.full_name

\* what the handler of event_type does with payload k when every commit goes
\* through
Handled(event_type, k) ==
    IF event_type = "pull_request"
    THEN handle_pull_request_event(Payloads[k], TRUE, TRUE)
    ELSE handle_repository_event(Payloads[k], TRUE)

\* C19: after a webhook event has been accepted and handled (no commit
\* raising), delivering the same event again leaves the Repository and
\* PullRequest tables as the first delivery left them: no row is added and no
\* field changes.
C19_RedeliveryIdempotent ==
    [][ ( /\ requests' = requests + 1
          /\ response'.endpoint = "webhook"
          /\ response'.payload # 0
          /\ storage_failures' = storage_failures )
        => /\ Handled(response.event, response.payload)'.repos = repositories'
           /\ Handled(response.event, response.payload)'.prs = pull_requests' ]_vars

\* pull_request opened delivered twice: both deliveries scheduled the trigger
\* task, one repository and one pull request are stored
C19_Witness ==
    /\ requests = 2
    /\ storage_failures = 0
    /\ response.endpoint = "webhook"
    /\ response.event = "pull_request"
    /\ response.payload = 1
    /\ Len(trigger_tasks) = 2
    /\ repositories = <<Repository(RepoR)>>
    /\ pull_requests = <<PullRequest(PrV1, 1)>>

\* the pull-request table after an upsert of pr_data: a stored row of that
\* external id has title, body, state, head sha and base sha overwritten and
\* nothing else; without one, exactly one row is appended
UpsertedPullRequests(before, after, pr_data) ==
    LET found == FirstPullRequest(before, pr_data.id)
    IN  IF found # 0
        THEN after = [before EXCEPT ![found] =
                         [@ EXCEPT !.title = pr_data.title, !.body = pr_data.body,
                                   !.state = pr_data.state, !.head_sha = pr_data.head,
                                   !.base_sha = pr_data.base]]
        ELSE \E repository_id \in DOMAIN repositories' :
                after = Append(before, PullRequest(pr_data, repository_id))

\* C20: an accepted pull_request opened or synchronize event (repository
\* owner, name and full name present, no commit having raised) leaves the
\* pull-request table upserted with the event's pull request.
C20_PullRequestUpsert ==
    [][ ( /\ requests' = requests + 1
          /\ response'.endpoint = "webhook"
          /\ response'.event = "pull_request"
          /\ response'.payload # 0
          /\ storage_failures' = 0
          /\ Payloads[response'.payload].action \in {"opened", "synchronize"}
          /\ Payloads[response'.payload].repository.owner # NULL
          /\ Payloads[response'.payload].repository.name # NULL
          /\ Payloads[response'.payload].repository.full_name # NULL )
        => UpsertedPullRequests(pull_requests, pull_requests',
                                Payloads[response'.payload].pull_request) ]_vars

\* no row of before is missing from after or has moved, changed its full
\* name, or gone from inactive to active
KeepsRepositories(before, after) ==
    /\ Len(after) >= Len(before)
    /\ \A k \in DOMAIN before :
          /\ after[k].full_name = before[k].full_name
          /\ ~before[k].is_active => ~after[k].is_active

\* C21: a repository "deleted" webhook (no commit raising) is answered 200
\* and sets is_active to false on the stored repository of that full name,
\* leaving the table as it is when there is none; and no step of the system,
\* nor any webhook event that could be delivered next, removes a Repository
\* row or makes an inactive one active.
C21_DeletedDeactivates ==
    [][ /\ KeepsRepositories(repositories, repositories')
        /\ \A event_type \in {"pull_request", "repository"}, k \in DOMAIN Payloads :
              KeepsRepositories(repositories', Handled(event_type, k)'.repos)
        /\ ( /\ requests' = requests + 1
             /\ response'.endpoint = "webhook"
             /\ response'.event = "repository"
             /\ response'.payload # 0
             /\ Payloads[response'.payload].action = "deleted"
             /\ storage_failures' = storage_failures )
           => LET full_name == Payloads[response'.payload].repository.full_name
                  found     == FirstRepository(repositories, full_name)
              IN  /\ response'.status = 200
                  /\ found = 0 => repositories' = repositories
                  /\ found # 0 =>
                        /\ Len(repositories') = Len(repositories)
                        /\ ~repositories'[found].is_active
                        /\ \A k \in DOMAIN repositories :
                              k # found => repositories'[k] = repositories[k] ]_vars

C21_Witness ==
    /\ response.endpoint = "webhook"
    /\ response.status = 200
    /\ response.event = "repository"
    /\ response.payload = 8
    /\ repositories = <<[Repository(RepoR) EXCEPT !.is_active = FALSE]>>

\* C22: an accepted pull_request webhook (repository owner, name and full
\* name present, no commit having raised) schedules the analysis trigger
\* exactly when its action is opened, or synchronize with the pull request not
\* a draft; it schedules at most one.
C22_TriggerCondition ==
    [][ ( /\ requests' = requests + 1
          /\ response'.endpoint = "webhook"
          /\ response'.event = "pull_request"
          /\ response'.payload # 0
          /\ storage_failures' = 0
          /\ Payloads[response'.payload].repository.owner # NULL
          /\ Payloads[response'.payload].repository.name # NULL
          /\ Payloads[response'.payload].repository.full_name # NULL )
        => LET action == Payloads[response'.payload].action
               draft  == Payloads[response'.payload].pull_request.draft
           IN  IF action = "opened" \/ (action = "synchronize" /\ draft # "true")
               THEN Len(trigger_tasks') = Len(trigger_tasks) + 1
               ELSE trigger_tasks' = trigger_tasks ]_vars

\* C23: when the persisted status of a session over at least one file
\* becomes completed (no commit having raised), the persisted state just
\* before already had processed_files > 0: a reader cannot see
\* processed_files 0 and then the session completed.
C23_NoStaleZero ==
    [][ \A s \in DOMAIN review_sessions :
           ( /\ review_sessions[s].status # "completed"
             /\ review_sessions'[s].status = "completed"
             /\ review_sessions[s].total_files >= 1
             /\ storage_failures' = 0 )
           => review_sessions[s].processed_files > 0 ]_vars

\* C24: when a session over one file has analysed and persisted that file
\* (no commit having raised), the Finding rows tagged ai that it stored for
\* the file are as many as the findings the AI collaborator returned for it:
\* bugs, security issues and quality issues together.
C24_EveryFindingPersisted ==
    \A t \in DOMAIN background_tasks :
        LET task == background_tasks[t]
            ai   == task.ai_result[1]
            rows == {r \in RowsBy(task.session_id) :
                        /\ code_reviews[r].file_path = task.request.files[1]
                        /\ code_reviews[r].source = "ai"}
        IN  (task.pc = "done" /\ storage_failures = 0 /\ task.log = <<"analysed">>)
            => Cardinality(rows)
                 = Len(ai.bugs) + Len(ai.security_issues) + Len(ai.quality_issues)

\* C25: every stored Finding row has a confidence within 0..100.
C25_ConfidenceClamped ==
    \A r \in DOMAIN code_reviews :
        /\ code_reviews[r].ai_confidence >= 0
        /\ code_reviews[r].ai_confidence <= 100

\* C26: when every file of a session was analysed and persisted (no commit
\* having raised), the summariser was given the results of all those files:
\* as many results as files, and a count of bugs equal to the bugs found over
\* all of them (one bug row was stored per bug).
C26_SummaryOverAllFiles ==
    \A t \in DOMAIN background_tasks :
        LET task == background_tasks[t]
            bugs == {r \in RowsBy(task.session_id) : code_reviews[r].review_type = "bug"}
        IN  ( /\ task.pc = "done"
              /\ storage_failures = 0
              /\ task.summary_input # <<>>
              /\ \A k \in DOMAIN task.log : task.log[k] = "analysed" )
            => /\ task.summary_input[1].files = Len(task.log)
               /\ task.summary_input[1].bugs = Cardinality(bugs)

\* the summary rows the orchestrator of session sid has stored
SummaryRowsBy(sid) ==
    {r \in RowsBy(sid) : code_reviews[r].review_type = "summary"}

\* C27 as stated: a session whose summary was asked for (no commit having
\* raised) ends completed; when the summarisation call raised it has stored
\* no summary row, and when the call succeeded it has stored exactly one,
\* with severity info, file path SUMMARY and line 0.
C27_SummaryFailureAsStated ==
    \A t \in DOMAIN background_tasks :
        LET task == background_tasks[t]
            rows == SummaryRowsBy(task.session_id)
        IN  (task.pc = "done" /\ storage_failures = 0 /\ task.summary_input # <<>>)
            => /\ SessionOf(task).status = "completed"
               /\ task.summary_input[1].text = "fallback" => rows = {}
               /\ task.summary_input[1].text = "llm"
                     => /\ Cardinality(rows) = 1
                        /\ \A r \in rows :
                              /\ code_reviews[r].severity = "info"
                              /\ code_reviews[r].file_path = "SUMMARY"
                              /\ code_reviews[r].line_number = <<0>>

\* C27 amended: an orchestrator run in which no commit raised ends with its
\* session completed, whether the summarisation call raised or not; a
\* completed session whose summary was asked for has stored exactly one
\* summary row (severity info, file path SUMMARY, line 0) whose description is
\* what the summariser returned, the fallback sentence when its call raised;
\* a completed session none of whose files reached the AI analysis has
\* stored no summary row.
C27_SummaryFailure ==
    \A t \in DOMAIN background_tasks :
        LET task == background_tasks[t]
            rows == SummaryRowsBy(task.session_id)
        IN  /\ (task.pc = "done" /\ storage_failures = 0)
                  => SessionOf(task).status = "completed"
            /\ (task.pc = "done" /\ SessionOf(task).status = "completed")
                  => IF task.summary_input = <<>> THEN rows = {}
                     ELSE /\ Cardinality(rows) = 1
                          /\ \A r \in rows :
                                /\ code_reviews[r].severity = "info"
                                /\ code_reviews[r].file_path = "SUMMARY"
                                /\ code_reviews[r].line_number = <<0>>
                                /\ code_reviews[r].description = task.summary_input[1].text

C27_Witness ==
    \E t \in DOMAIN background_tasks :
        /\ background_tasks[t].pc = "done"
        /\ SessionOf(background_tasks[t]).status = "completed"
        /\ background_tasks[t].summary_input # <<>>
        /\ background_tasks[t].summary_input[1].text = "fallback"
        /\ \E r \in SummaryRowsBy(background_tasks[t].session_id) :
              code_reviews[r].description = "fallback"

\* C28: in every step the stored processed_files and total_issues of every
\* session are at least what they were before the step, and the files of a
\* session are taken in the order of the input list: the loop index of an
\* orchestrator moves by at most one per step and only forward, and file
\* i + 1 is started only when each of the files 1..i has had its outcome.
C28_MonotoneProgress ==
    [][/\ \A sid \in DOMAIN review_sessions :
             /\ review_sessions'[sid].processed_files >= review_sessions[sid].processed_files
             /\ review_sessions'[sid].total_issues >= review_sessions[sid].total_issues
       /\ \A t \in DOMAIN background_tasks :
             /\ background_tasks'[t].i \in {background_tasks[t].i, background_tasks[t].i + 1}
             /\ Len(background_tasks'[t].log) = background_tasks'[t].i
             /\ background_tasks'[t].i <= Len(background_tasks'[t].request.files)
             /\ background_tasks'[t].request = background_tasks[t].request]_vars

C28_Witness ==
    \E t \in DOMAIN background_tasks :
        /\ background_tasks[t].log = <<"analysed", "analysed">>
        /\ SessionOf(background_tasks[t]).processed_files = 2
        /\ SessionOf(background_tasks[t]).total_issues > 0
        /\ SessionOf(background_tasks[t]).status = "failed"

\* the 1-based position of the last file of a run that was analysed, stored
\* and committed; 0 when no file was
RECURSIVE LastAnalysed(_)
LastAnalysed(log) ==
    IF log = <<>> THEN 0
    ELSE IF log[Len(log)] = "analysed" THEN Len(log)
    ELSE LastAnalysed(SubSeq(log, 1, Len(log) - 1))

\* C29: a completed session's processed_files is the 1-based position of the
\* last file that was analysed, stored and committed, 0 when there is none;
\* so a file that was skipped, or abandoned after an exception, is within
\* processed_files exactly when a later file was analysed and committed.
C29_ProcessedIsLastAnalysed ==
    \A t \in DOMAIN background_tasks :
        LET task == background_tasks[t]
        IN  SessionOf(task).status = "completed"
            => /\ SessionOf(task).processed_files = LastAnalysed(task.log)
               /\ \A k \in 1..Len(task.log) :
                     task.log[k] # "analysed"
                     => (k <= SessionOf(task).processed_files
                         <=> \E j \in (k + 1)..Len(task.log) : task.log[j] = "analysed")

C29_Witness ==
    \E t \in DOMAIN background_tasks :
        /\ SessionOf(background_tasks[t]).status = "completed"
        /\ background_tasks[t].log = <<"skipped", "analysed">>
        /\ SessionOf(background_tasks[t]).processed_files = 2

FindingRowsBy(sid) == RowsBy(sid) \ SummaryRowsBy(sid)

\* C30: in every state the stored total_issues of a session is at most the
\* number of rows other than the summary row that the session's orchestrator
\* has stored.
C30_TotalAtMostRows ==
    \A t \in DOMAIN background_tasks :
        background_tasks[t].session_id \in DOMAIN review_sessions
        => SessionOf(background_tasks[t]).total_issues
              <= Cardinality(FindingRowsBy(background_tasks[t].session_id))

\* the same, in the runs in which no commit raised
TotalAtMostRowsWithoutFailure ==
    storage_failures = 0 => C30_TotalAtMostRows

====
